---- MODULE Spec2Model ----
(***************************************************************************)
(* Model of the chronicle editor's generation engine.                      *)
(*                                                                         *)
(* The repository holds two generations of the editor machine:             *)
(*   - src/src/lib/errors.ts (lines 303-803): the machine with the streamText    *)
(*     invoke, the success/error states and RESET, driven by                *)
(*     src/src/components/EditorCard.tsx.  Specification Spec.                   *)
(*   - src/unnamed/part_001 with src/unnamed/part_003: the machine with    *)
(*     CANCEL, driven by EditorCard.handleContinueWriting, which streams    *)
(*     tokens into content itself.  Specification SpecCard.                 *)
(* and the utilities withRetry (SpecRetry), withTimeout (SpecTimeout), the  *)
(* Content Guard (SpecGuard) and the error classification of                *)
(* mockAIGenerationService (SpecClassify).                                  *)
(*                                                                         *)
(* Strings are sequences of character codes, so that trim, sanitize and     *)
(* the token split are computed as the code computes them.  A negative      *)
(* element -n stands for n consecutive "a" (code 97), which keeps a text    *)
(* of 50,001 characters small; only whole runs are ever cut or joined.      *)
(***************************************************************************)
EXTENDS Integers, Sequences, FiniteSets, TLC

(***************************************************************************)
(* Bounds of the model.                                                    *)
(***************************************************************************)
\* generations merged (or streamed) before CONTINUE_WRITING is no longer offered
MaxGenerations == 2
\* steps the clock takes
MaxClock == 2
\* handler invocations of EditorCard.handleContinueWriting per run
MaxHandlers == 2
\* largest maxRetries given to withRetry
MaxRetries == 3
\* largest delay (ms) given to withRetry / withTimeout
MaxDelay == 2
\* longest text (in characters written out one by one) given to the Content Guard
MaxInputLen == 3
\* applications of sanitizeContent in a row
MaxPasses == 2
\* RETRY events sent to the machine while it is in the error state
MaxRetryEvents == 1

(***************************************************************************)
(* Program constants.                                                      *)
(***************************************************************************)
MaxContentLength == 50000
\* success.after and error.after (ms)
SuccessDelay == 150
ErrorDelay == 10000
\* mockAIGenerationService's default timeoutMs
DefaultTimeoutMs == 10000

(***************************************************************************)
(* Strings.                                                                *)
(***************************************************************************)
\* "" , and the characters the model's texts are made of
EmptyString == << >>
Str_a_dot_space == << 97, 46, 32 >>
Str_a_dot == << 97, 46 >>
Str_space == << 32 >>
Str_ctl_a == << 1, 97 >>
\* "Hello world"
Str_HelloWorld == << 72, 101, 108, 108, 111, 32, 119, 111, 114, 108, 100 >>
\* 50,001 times "a": one character more than validateContent accepts
Str_TooLong == << -(MaxContentLength + 1) >>
\* 50 times "a": the shortest content the generator does not treat as short
Str_Fifty == << -50 >>

\* String.prototype.length
RECURSIVE StrLen(_)
StrLen(s) ==
    IF s = << >> THEN 0
    ELSE (IF Head(s) < 0 THEN -Head(s) ELSE 1) + StrLen(Tail(s))

\* String.prototype.trim's white space (ASCII part, and NBSP), also the regex \s
IsWhiteSpace(c) == c \in {9, 10, 11, 12, 13, 32, 160}

\* /[\x00-\x08\x0B\x0C\x0E-\x1F\x7F]/
IsProblematicChar(c) == (c >= 0 /\ c <= 8) \/ c = 11 \/ c = 12 \/ (c >= 14 /\ c <= 31) \/ c = 127

RECURSIVE TrimStartIndex(_, _)
TrimStartIndex(s, i) ==
    IF i > Len(s) \/ ~IsWhiteSpace(s[i]) THEN i ELSE TrimStartIndex(s, i + 1)

RECURSIVE TrimEndIndex(_, _)
TrimEndIndex(s, n) ==
    IF n = 0 \/ ~IsWhiteSpace(s[n]) THEN n ELSE TrimEndIndex(s, n - 1)

\* String.prototype.trim
Trim(s) == SubSeq(s, TrimStartIndex(s, 1), TrimEndIndex(s, Len(s)))

\* s.endsWith(c) for a one-character c
EndsWith(s, c) == Len(s) > 0 /\ s[Len(s)] = c

\* s.startsWith(c) for a one-character c
StartsWith(s, c) == Len(s) > 0 /\ s[1] = c

\* Array.prototype.join('') of a list of strings
RECURSIVE Join(_)
Join(tokens) == IF tokens = << >> THEN << >> ELSE Head(tokens) \o Join(Tail(tokens))

\* last index of the run of characters of s that starts at i and is white space iff ws
RECURSIVE RunEnd(_, _, _)
RunEnd(s, i, ws) ==
    IF i < Len(s) /\ (IsWhiteSpace(s[i + 1]) <=> ws) THEN RunEnd(s, i + 1, ws) ELSE i

\* selectedText.split(/(\s+)/).filter(token => token.length > 0)
RECURSIVE SplitKeepingWhiteSpace(_)
SplitKeepingWhiteSpace(s) ==
    IF s = << >> THEN << >>
    ELSE LET e == RunEnd(s, 1, IsWhiteSpace(s[1]))
         IN  << SubSeq(s, 1, e) >> \o SplitKeepingWhiteSpace(SubSeq(s, e + 1, Len(s)))

(***************************************************************************)
(* Optional values: undefined / null is << >>, a value v is << v >>.       *)
(***************************************************************************)
Undefined == << >>
Some(v) == << v >>

(***************************************************************************)
(* Content Guard (errors.ts).                                              *)
(***************************************************************************)
HasProblematicChar(s) == \E i \in 1..Len(s) : IsProblematicChar(s[i])

\* mutant of validateContent: control characters are not a violation
validateContent_length_only(s) ==
    IF StrLen(s) > MaxContentLength
       THEN << "Content exceeds maximum length of 50,000 characters" >> ELSE << >>

\* mutant of validateContent: a text of exactly 50,000 characters is too long
validateContent_inclusive(s) ==
    (IF StrLen(s) >= MaxContentLength
        THEN << "Content exceeds maximum length of 50,000 characters" >> ELSE << >>)
    \o
    (IF HasProblematicChar(s)
        THEN << "Content contains invalid control characters" >> ELSE << >>)

\* validateContent(content).errors
validateContent(s) ==
    (IF StrLen(s) > MaxContentLength
        THEN << "Content exceeds maximum length of 50,000 characters" >> ELSE << >>)
    \o
    (IF HasProblematicChar(s)
        THEN << "Content contains invalid control characters" >> ELSE << >>)

\* validateContent(content).isValid
isValid(s) == Len(validateContent(s)) = 0

\* mutant of sanitizeContent: replace without the g flag removes the first match only
RECURSIVE sanitizeContent_first_only(_)
sanitizeContent_first_only(s) ==
    IF s = << >> THEN s
    ELSE IF IsProblematicChar(Head(s)) THEN Tail(s)
    ELSE << Head(s) >> \o sanitizeContent_first_only(Tail(s))

\* sanitizeContent(content)
sanitizeContent(s) == SelectSeq(s, LAMBDA c : ~IsProblematicChar(c))

(***************************************************************************)
(* Errors: the thrown objects, as [name, type, message].                   *)
(***************************************************************************)
\* errors.join(', ')
JoinErrors(errs) ==
    IF Len(errs) = 0 THEN ""
    ELSE IF Len(errs) = 1 THEN errs[1]
    ELSE "Content exceeds maximum length of 50,000 characters, Content contains invalid control characters"

ValidationError(message) ==
    [name |-> "ValidationError", type |-> "VALIDATION", message |-> message]

AIGenerationError(message) ==
    [name |-> "AIGenerationError", type |-> "AI_GENERATION", message |-> message]

\* new Error(message) with error.name = 'NetworkError'
NetworkError(message) ==
    [name |-> "NetworkError", type |-> "none", message |-> message]

\* `Invalid content: ${validation.errors.join(', ')}`
InvalidContentError(s) ==
    LET joined == JoinErrors(validateContent(s))
    IN  ValidationError(
          IF joined = "Content exceeds maximum length of 50,000 characters"
             THEN "Invalid content: Content exceeds maximum length of 50,000 characters"
          ELSE IF joined = "Content contains invalid control characters"
             THEN "Invalid content: Content contains invalid control characters"
          ELSE "Invalid content: Content exceeds maximum length of 50,000 characters, Content contains invalid control characters")

EmptyInputError == ValidationError("Cannot generate content for empty input")

networkErrors ==
    { NetworkError("Network connection timeout"),
      NetworkError("Failed to fetch from AI service"),
      NetworkError("Connection refused by server") }

serviceErrors ==
    { AIGenerationError("AI service temporarily unavailable"),
      AIGenerationError("Content generation failed - please try again"),
      AIGenerationError("AI model is currently overloaded"),
      AIGenerationError("Rate limit exceeded") }

(***************************************************************************)
(* Streaming generator of errors.ts (mockAIStreamingService, 339-425).      *)
(***************************************************************************)
\* " The sun."  (the shape of the source's texts: leading space, final period)
Text_TheSunDot == << 32, 84, 104, 101, 32, 115, 117, 110, 46 >>
\* "The sun"
Text_TheSun == << 84, 104, 101, 32, 115, 117, 110 >>
\* " b  c."  (a run of two spaces inside)
Text_b_c == << 32, 98, 32, 32, 99, 46 >>

\* the candidate pool (the replaceable backend surface)
continuationTexts == { Text_TheSunDot, Text_TheSun, Text_b_c }

\* continuationTexts.filter(text => text.includes('morning') || ...)
openingTexts == { Text_TheSunDot, Text_TheSun }

\* What one call of the generator does before its first await: throw, or select a
\* text.  Math.random() is the nondeterministic choice among the members.
StreamOutcomes(existingContent) ==
    IF ~isValid(existingContent)
       THEN { [throws |-> TRUE, error |-> InvalidContentError(existingContent), text |-> << >>] }
    ELSE IF Len(Trim(sanitizeContent(existingContent))) = 0
       THEN { [throws |-> TRUE, error |-> EmptyInputError, text |-> << >>] }
    ELSE { [throws |-> TRUE, error |-> e, text |-> << >>] : e \in networkErrors \cup serviceErrors }
         \cup
         { [throws |-> FALSE, error |-> EmptyInputError, text |-> t] :
             t \in (IF StrLen(sanitizeContent(existingContent)) < 50
                       THEN openingTexts ELSE continuationTexts) }

(***************************************************************************)
(* State.                                                                  *)
(***************************************************************************)
VARIABLES
    state,               \* the machine's state value
    content,             \* context.content
    generatedText,       \* context.generatedText
    streamingText,       \* context.streamingText
    error,               \* context.error: Undefined or Some(message)
    lastGenerationTime,  \* context.lastGenerationTime: Undefined or Some(ms)
    generationCount,     \* context.generationCount
    retryCount,          \* context.retryCount
    isRetrying,          \* context.isRetrying
    actor,               \* the invoked streamText promise and its generator
    now,                 \* Date.now()
    timers,              \* the delayed transitions (after) that are scheduled
    retriesReceived      \* RETRY events the error state has received so far

VARIABLES
    view,                \* EditorCard: the state and content of the last render
    streamingRef,        \* EditorCard: streamingRef.current (0 is null)
    handlers,            \* EditorCard: the running handleContinueWriting calls
    started              \* EditorCard: handleContinueWriting calls made so far

VARIABLES
    retry,               \* one call of withRetry
    race,                \* one call of withTimeout
    guard,               \* one text taken through validateContent / sanitizeContent
    failure              \* one error thrown inside mockAIGenerationService's try block

contextVars == << content, generatedText, streamingText, error, lastGenerationTime,
                  generationCount, retryCount, isRetrying >>
machineVars == << state, contextVars, actor, now, timers, retriesReceived >>
cardVars == << view, streamingRef, handlers, started >>
utilVars == << retry, race, guard, failure >>
vars == << machineVars, now, timers, retriesReceived, cardVars, utilVars >>

\* the value of Date.now() when the machine definition was evaluated
MachineCreatedAt == 0

NoActor == [status |-> "none", throws |-> FALSE,
            error |-> EmptyInputError, remaining |-> << >>, tokens |-> << >>]

\* fromPromise(...) started with input.content: the generator runs to its first await
StartActor(outcome) ==
    [status |-> "running", throws |-> outcome.throws,
     error |-> outcome.error, remaining |-> SplitKeepingWhiteSpace(outcome.text),
     tokens |-> << >>]

(***************************************************************************)
(* editorMachine of errors.ts (542-800).                                    *)
(***************************************************************************)
\* entering a state with an after transition schedules its delayed event
Scheduled(s, delay) == [state |-> s, due |-> now + delay]

\* leaving a state cancels the delayed events it scheduled
Cancelled(s) == { t \in timers : t.state # s }

\* a delayed event of state s is due
Due(s) == \E t \in timers : t.state = s /\ now >= t.due

\* the contents the editor widget sends with UPDATE_CONTENT
ContentInputs ==
    { EmptyString, Str_a_dot, Str_a_dot_space, Str_ctl_a, Str_HelloWorld, Str_Fifty, Str_TooLong }

\* idle.on.CONTINUE_WRITING.guard
idle_CONTINUE_WRITING_guard(c) ==
    IF ~isValid(c) THEN FALSE ELSE Len(Trim(c)) > 0

\* idle.on.UPDATE_CONTENT: the assigner of content
idle_UPDATE_CONTENT_content(eventContent) ==
    LET sanitized == sanitizeContent(eventContent)
    IN  IF ~isValid(sanitized) THEN eventContent ELSE sanitized

\* mutant of success_entry_content: the generated text is appended untrimmed
success_entry_content_untrimmed(c, g) ==
    IF Len(g) = 0 \/ Len(Trim(g)) = 0 THEN c
    ELSE LET trimmedContent == Trim(c)
             needsSpace == /\ ~EndsWith(trimmedContent, 46)
                           /\ ~EndsWith(trimmedContent, 33)
                           /\ ~EndsWith(trimmedContent, 63)
                           /\ ~StartsWith(g, 32)
         IN  IF Len(trimmedContent) = 0 THEN g
             ELSE trimmedContent \o (IF needsSpace THEN << 32 >> ELSE << >>) \o g

\* success.entry: the assigner of content
success_entry_content(c, g) ==
    IF Len(g) = 0 \/ Len(Trim(g)) = 0 THEN c
    ELSE LET trimmedContent == Trim(c)
             trimmedGenerated == Trim(g)
             needsSpace == /\ ~EndsWith(trimmedContent, 46)
                           /\ ~EndsWith(trimmedContent, 33)
                           /\ ~EndsWith(trimmedContent, 63)
                           /\ ~StartsWith(trimmedGenerated, 32)
         IN  IF Len(trimmedContent) = 0 THEN trimmedGenerated
             ELSE trimmedContent \o (IF needsSpace THEN << 32 >> ELSE << >>) \o trimmedGenerated

\* loading.entry and loading.invoke: clear the texts, start the streamText actor
EnterLoading ==
    /\ streamingText' = EmptyString
    /\ generatedText' = EmptyString
    /\ \E outcome \in StreamOutcomes(content) : actor' = StartActor(outcome)

\* mutant of StopActor: the invoked actor is left running when loading is left
StopActor_left_running ==
    actor' = actor

\* leaving loading stops the invoked actor; its promise is not listened to any more
StopActor ==
    actor' = IF actor.status = "running" THEN [NoActor EXCEPT !.status = "stopped"] ELSE actor

idle_CONTINUE_WRITING ==
    /\ state = "idle"
    /\ idle_CONTINUE_WRITING_guard(content)
    /\ generationCount < MaxGenerations
    /\ state' = "loading"
    /\ error' = Undefined
    /\ lastGenerationTime' = Some(MachineCreatedAt)
    /\ retryCount' = 0
    /\ isRetrying' = FALSE
    /\ EnterLoading
    /\ UNCHANGED << content, generationCount, now, timers, retriesReceived, cardVars, utilVars >>

\* idle.on.UPDATE_CONTENT for one event
idle_UPDATE_CONTENT_event(eventContent) ==
    /\ state = "idle"
    /\ content' = idle_UPDATE_CONTENT_content(eventContent)
    /\ UNCHANGED << state, generatedText, streamingText, error, lastGenerationTime,
                    generationCount, retryCount, isRetrying, actor, now, timers, retriesReceived, cardVars, utilVars >>

idle_UPDATE_CONTENT ==
    \E eventContent \in ContentInputs : idle_UPDATE_CONTENT_event(eventContent)

\* CLEAR_ERROR in idle, loading and success: no target
CLEAR_ERROR ==
    /\ state \in {"idle", "loading", "success"}
    /\ error' = Undefined
    /\ UNCHANGED << state, content, generatedText, streamingText, lastGenerationTime,
                    generationCount, retryCount, isRetrying, actor, now, timers, retriesReceived, cardVars, utilVars >>

\* mutant of RESET: the error is not cleared
RESET_keeping_error ==
    /\ state \in {"idle", "loading", "success", "error"}
    /\ state' = "idle"
    /\ content' = EmptyString
    /\ generatedText' = EmptyString
    /\ streamingText' = EmptyString
    /\ lastGenerationTime' = Undefined
    /\ generationCount' = 0
    /\ actor' = IF actor.status = "running" THEN [NoActor EXCEPT !.status = "stopped"] ELSE actor
    /\ timers' = Cancelled(state)
    /\ UNCHANGED << error, retryCount, isRetrying, now, retriesReceived, cardVars, utilVars >>

\* RESET: the same transition in idle, loading, success and error
RESET ==
    /\ state \in {"idle", "loading", "success", "error"}
    /\ state' = "idle"
    /\ content' = EmptyString
    /\ generatedText' = EmptyString
    /\ streamingText' = EmptyString
    /\ error' = Undefined
    /\ lastGenerationTime' = Undefined
    /\ generationCount' = 0
    /\ StopActor
    /\ timers' = Cancelled(state)
    /\ UNCHANGED << retryCount, isRetrying, now, retriesReceived, cardVars, utilVars >>

\* the generator yields a token and the promise's loop pushes it: tokens.push(token)
actor_token ==
    /\ state = "loading"
    /\ actor.status = "running"
    /\ ~actor.throws
    /\ Len(actor.remaining) > 0
    /\ actor' = [actor EXCEPT !.tokens = Append(@, Head(actor.remaining)),
                              !.remaining = Tail(@)]
    /\ UNCHANGED << state, contextVars, now, timers, retriesReceived, cardVars, utilVars >>

\* mutant of loading_onDone: success.entry does not clear the generated text
loading_onDone_keeping_generatedText ==
    /\ state = "loading"
    /\ actor.status = "running"
    /\ ~actor.throws
    /\ Len(actor.remaining) = 0
    /\ LET output == Join(actor.tokens)
       IN  /\ content' = success_entry_content(content, output)
           /\ generatedText' = output
           /\ streamingText' = EmptyString
           /\ error' = Undefined
           /\ generationCount' = generationCount + 1
    /\ state' = "success"
    /\ actor' = [NoActor EXCEPT !.status = "done"]
    /\ timers' = timers \cup { Scheduled("success", SuccessDelay) }
    /\ UNCHANGED << lastGenerationTime, retryCount, isRetrying, now, retriesReceived, cardVars, utilVars >>

\* loading.invoke.onDone, then success.entry
loading_onDone ==
    /\ state = "loading"
    /\ actor.status = "running"
    /\ ~actor.throws
    /\ Len(actor.remaining) = 0
    /\ LET output == Join(actor.tokens)
       IN  /\ content' = success_entry_content(content, output)
           /\ generatedText' = EmptyString
           /\ streamingText' = EmptyString
           /\ error' = Undefined
           /\ generationCount' = generationCount + 1
    /\ state' = "success"
    /\ actor' = [NoActor EXCEPT !.status = "done"]
    /\ timers' = timers \cup { Scheduled("success", SuccessDelay) }
    /\ UNCHANGED << lastGenerationTime, retryCount, isRetrying, now, retriesReceived, cardVars, utilVars >>

\* mutant of loading_onError: the error state is entered without its delayed event
loading_onError_without_timer ==
    /\ state = "loading"
    /\ actor.status = "running"
    /\ actor.throws
    /\ error' = Some(actor.error.message)
    /\ generatedText' = EmptyString
    /\ streamingText' = EmptyString
    /\ state' = "error"
    /\ actor' = [NoActor EXCEPT !.status = "failed"]
    /\ UNCHANGED << content, lastGenerationTime, generationCount, retryCount, isRetrying,
                    now, timers, retriesReceived, cardVars, utilVars >>

\* mutant of loading_onError: the generator may also fail after it has yielded
loading_onError_midstream ==
    /\ state = "loading"
    /\ actor.status = "running"
    /\ actor.throws \/ Len(actor.tokens) > 0
    /\ error' = Some(actor.error.message)
    /\ generatedText' = EmptyString
    /\ streamingText' = EmptyString
    /\ state' = "error"
    /\ actor' = [NoActor EXCEPT !.status = "failed"]
    /\ timers' = timers \cup { Scheduled("error", ErrorDelay) }
    /\ UNCHANGED << content, lastGenerationTime, generationCount, retryCount, isRetrying,
                    now, retriesReceived, cardVars, utilVars >>

\* loading.invoke.onError, then error.entry (which only logs)
loading_onError ==
    /\ state = "loading"
    /\ actor.status = "running"
    /\ actor.throws
    /\ error' = Some(actor.error.message)
    /\ generatedText' = EmptyString
    /\ streamingText' = EmptyString
    /\ state' = "error"
    /\ actor' = [NoActor EXCEPT !.status = "failed"]
    /\ timers' = timers \cup { Scheduled("error", ErrorDelay) }
    /\ UNCHANGED << content, lastGenerationTime, generationCount, retryCount, isRetrying,
                    now, retriesReceived, cardVars, utilVars >>

\* UPDATE_CONTENT in loading, success and error: content as given
UPDATE_CONTENT ==
    /\ state \in {"loading", "success", "error"}
    /\ \E eventContent \in ContentInputs : content' = eventContent
    /\ UNCHANGED << state, generatedText, streamingText, error, lastGenerationTime,
                    generationCount, retryCount, isRetrying, actor, now, timers, retriesReceived, cardVars, utilVars >>

\* mutant of success_after: leaving success counts the generation a second time
success_after_counting ==
    /\ state = "success"
    /\ Due("success")
    /\ state' = "idle"
    /\ generationCount' = generationCount + 1
    /\ timers' = Cancelled("success")
    /\ UNCHANGED << content, generatedText, streamingText, error, lastGenerationTime,
                    retryCount, isRetrying, actor, now, retriesReceived, cardVars, utilVars >>

\* success.after 150
success_after ==
    /\ state = "success"
    /\ Due("success")
    /\ state' = "idle"
    /\ timers' = Cancelled("success")
    /\ UNCHANGED << contextVars, actor, now, retriesReceived, cardVars, utilVars >>

success_CONTINUE_WRITING ==
    /\ state = "success"
    /\ generationCount < MaxGenerations
    /\ state' = "loading"
    /\ error' = Undefined
    /\ lastGenerationTime' = Some(MachineCreatedAt)
    /\ EnterLoading
    /\ timers' = Cancelled("success")
    /\ UNCHANGED << content, generationCount, retryCount, isRetrying, now, retriesReceived, cardVars, utilVars >>

\* mutant of error_CONTINUE_WRITING: the new attempt is counted as a retry
error_CONTINUE_WRITING_counting_retry ==
    /\ state = "error"
    /\ generationCount < MaxGenerations
    /\ state' = "loading"
    /\ error' = Undefined
    /\ lastGenerationTime' = Some(MachineCreatedAt)
    /\ EnterLoading
    /\ timers' = Cancelled("error")
    /\ retryCount' = retryCount + 1
    /\ UNCHANGED << content, generationCount, isRetrying, now, retriesReceived, cardVars, utilVars >>

error_CONTINUE_WRITING ==
    /\ state = "error"
    /\ generationCount < MaxGenerations
    /\ state' = "loading"
    /\ error' = Undefined
    /\ lastGenerationTime' = Some(MachineCreatedAt)
    /\ EnterLoading
    /\ timers' = Cancelled("error")
    /\ UNCHANGED << content, generationCount, retryCount, isRetrying, now, retriesReceived, cardVars, utilVars >>

\* mutant of error_CLEAR_ERROR: the delayed event of the error state stays scheduled
error_CLEAR_ERROR_keeping_timer ==
    /\ state = "error"
    /\ state' = "idle"
    /\ error' = Undefined
    /\ UNCHANGED << content, generatedText, streamingText, lastGenerationTime,
                    generationCount, retryCount, isRetrying, actor, now, timers, retriesReceived, cardVars, utilVars >>

error_CLEAR_ERROR ==
    /\ state = "error"
    /\ state' = "idle"
    /\ error' = Undefined
    /\ timers' = Cancelled("error")
    /\ UNCHANGED << content, generatedText, streamingText, lastGenerationTime,
                    generationCount, retryCount, isRetrying, actor, now, retriesReceived, cardVars, utilVars >>

\* mutant of error_after: the timer leaves the error state and keeps the error
error_after_keeping_error ==
    /\ state = "error"
    /\ Due("error")
    /\ state' = "idle"
    /\ timers' = Cancelled("error")
    /\ UNCHANGED << contextVars, actor, now, retriesReceived, cardVars, utilVars >>

\* mutant of error_after: the timer resets the count like RESET does
error_after_resetting ==
    /\ state = "error"
    /\ Due("error")
    /\ state' = "idle"
    /\ error' = Undefined
    /\ generationCount' = 0
    /\ timers' = Cancelled("error")
    /\ UNCHANGED << content, generatedText, streamingText, lastGenerationTime,
                    retryCount, isRetrying, actor, now, retriesReceived, cardVars, utilVars >>

\* error.after 10000
error_after ==
    /\ state = "error"
    /\ Due("error")
    /\ state' = "idle"
    /\ error' = Undefined
    /\ timers' = Cancelled("error")
    /\ UNCHANGED << content, generatedText, streamingText, lastGenerationTime,
                    generationCount, retryCount, isRetrying, actor, now, retriesReceived, cardVars, utilVars >>

\* the events a state has no transition for (or whose guard is false) are dropped
DroppedEvents ==
    { "STREAM_TOKEN", "STREAM_COMPLETE", "GENERATION_ERROR" }
    \cup (IF state # "error" THEN { "RETRY" } ELSE { })
    \cup (IF state = "loading" THEN { "CONTINUE_WRITING" } ELSE { })
    \cup (IF state = "idle" /\ ~idle_CONTINUE_WRITING_guard(content)
             THEN { "CONTINUE_WRITING" } ELSE { })

dropped_event ==
    /\ \E type \in DroppedEvents : TRUE
    /\ UNCHANGED << state, contextVars, actor, now, timers, retriesReceived, cardVars, utilVars >>

\* RETRY received in error: the state has no transition for it, the event is dropped
error_RETRY ==
    /\ state = "error"
    /\ retriesReceived < MaxRetryEvents
    /\ retriesReceived' = retriesReceived + 1
    /\ UNCHANGED << state, contextVars, actor, now, timers, cardVars, utilVars >>

\* the steps of SuccessDelay or ErrorDelay the clock took to reach t
ClockSteps(t) == (t \div ErrorDelay) + ((t % ErrorDelay) \div SuccessDelay)

\* time passes
tick ==
    /\ ClockSteps(now) < MaxClock
    /\ \E d \in {SuccessDelay, ErrorDelay} : now' = now + d
    /\ UNCHANGED << state, contextVars, actor, timers, retriesReceived, cardVars, utilVars >>

CardIdle ==
    /\ view = [state |-> "idle", content |-> EmptyString]
    /\ streamingRef = 0
    /\ handlers = << >>
    /\ started = 0

UtilIdle ==
    /\ retry = [pc |-> "unused"]
    /\ race = [pc |-> "unused"]
    /\ guard = [pc |-> "unused"]
    /\ failure = [pc |-> "unused"]

MachineInit ==
    /\ state = "idle"
    /\ content = EmptyString
    /\ generatedText = EmptyString
    /\ streamingText = EmptyString
    /\ error = Undefined
    /\ lastGenerationTime = Undefined
    /\ generationCount = 0
    /\ retryCount = 0
    /\ isRetrying = FALSE
    /\ actor = NoActor
    /\ now = MachineCreatedAt
    /\ timers = { }
    /\ retriesReceived = 0

Init == MachineInit /\ CardIdle /\ UtilIdle

Next ==
    \/ idle_CONTINUE_WRITING
    \/ idle_UPDATE_CONTENT
    \/ CLEAR_ERROR
    \/ RESET
    \/ actor_token
    \/ loading_onDone
    \/ loading_onError
    \/ UPDATE_CONTENT
    \/ success_after
    \/ success_CONTINUE_WRITING
    \/ error_CONTINUE_WRITING
    \/ error_CLEAR_ERROR
    \/ error_after
    \/ dropped_event
    \/ error_RETRY
    \/ tick

Spec == Init /\ [][Next]_vars

(***************************************************************************)
(* The machine left alone once a generation has been accepted: events      *)
(* arrive only in idle, the invoked promise settles and the delayed events *)
(* of success and error are delivered (specification SpecQuiet).           *)
(***************************************************************************)
\* CONTINUE_WRITING sent in idle, while the clock is below its bound
quiet_CONTINUE_WRITING ==
    /\ now < MaxClock * ErrorDelay
    /\ idle_CONTINUE_WRITING

\* time passes until the next scheduled delayed event is due
time_passes ==
    /\ timers # { }
    /\ \A t \in timers : now < t.due
    /\ \E t \in timers : (\A u \in timers : t.due <= u.due) /\ now' = t.due
    /\ UNCHANGED << state, contextVars, actor, timers, retriesReceived, cardVars, utilVars >>

QuietNext ==
    \/ idle_UPDATE_CONTENT
    \/ quiet_CONTINUE_WRITING
    \/ actor_token
    \/ loading_onDone
    \/ loading_onError
    \/ success_after
    \/ error_after
    \/ time_passes

\* the generator's awaits are timers that elapse, and the interpreter delivers
\* the settlement of the invoked promise and the delayed events
SpecQuiet ==
    /\ Init
    /\ [][QuietNext]_vars
    /\ WF_vars(actor_token)
    /\ WF_vars(loading_onDone)
    /\ WF_vars(loading_onError)
    /\ WF_vars(success_after)
    /\ WF_vars(error_after)
    /\ WF_vars(time_passes)

(***************************************************************************)
(* The machine of part_001 and the EditorCard of part_003                  *)
(* (specification SpecCard).  state, content and error are this machine's  *)
(* state value and context; the other context fields do not exist in it.   *)
(***************************************************************************)
\* selectedText.split(/\s+/).filter(Boolean)
SplitDroppingWhiteSpace(s) ==
    SelectSeq(SplitKeepingWhiteSpace(s), LAMBDA t : ~IsWhiteSpace(t[1]))

\* part_001's pool, in the order of the array
card_continuationTexts == << Text_TheSun, Text_b_c >>

\* What one call of part_001's generator does before its first await.  A short
\* content gets the first text find() matches, a long one a random text.
CardStreamOutcomes(existingContent) ==
    IF ~isValid(existingContent)
       THEN { [throws |-> TRUE, error |-> InvalidContentError(existingContent), text |-> << >>] }
    ELSE IF Len(Trim(sanitizeContent(existingContent))) = 0
       THEN { [throws |-> TRUE, error |-> EmptyInputError, text |-> << >>] }
    ELSE { [throws |-> FALSE, error |-> EmptyInputError, text |-> t] :
             t \in (IF StrLen(sanitizeContent(existingContent)) < 50
                       THEN { card_continuationTexts[1] }
                       ELSE { card_continuationTexts[i] : i \in 1..Len(card_continuationTexts) }) }

\* mutant of card_transition: CANCEL in loading is treated as a failure
card_transition_cancel_fails(s, c, e, event) ==
    IF s = "idle" /\ event.type = "UPDATE_CONTENT"
       THEN [state |-> s, content |-> event.content, error |-> e]
    ELSE IF s = "idle" /\ event.type = "CONTINUE_WRITING"
       THEN [state |-> "loading", content |-> c, error |-> e]
    ELSE IF s = "loading" /\ event.type = "CANCEL"
       THEN [state |-> "error", content |-> c, error |-> Some("Generation cancelled")]
    ELSE IF s = "loading" /\ event.type = "UPDATE_CONTENT"
       THEN [state |-> s, content |-> event.content, error |-> e]
    ELSE IF s = "streaming" /\ event.type = "CANCEL"
       THEN [state |-> "idle", content |-> c, error |-> e]
    ELSE IF s = "error" /\ event.type = "CLEAR_ERROR"
       THEN [state |-> "idle", content |-> c, error |-> Undefined]
    ELSE [state |-> s, content |-> c, error |-> e]

\* editorMachine of part_001: the state and context after one event
card_transition(s, c, e, event) ==
    IF s = "idle" /\ event.type = "UPDATE_CONTENT"
       THEN [state |-> s, content |-> event.content, error |-> e]
    ELSE IF s = "idle" /\ event.type = "CONTINUE_WRITING"
       THEN [state |-> "loading", content |-> c, error |-> e]
    ELSE IF s = "loading" /\ event.type = "CANCEL"
       THEN [state |-> "idle", content |-> c, error |-> e]
    ELSE IF s = "loading" /\ event.type = "UPDATE_CONTENT"
       THEN [state |-> s, content |-> event.content, error |-> e]
    ELSE IF s = "streaming" /\ event.type = "CANCEL"
       THEN [state |-> "idle", content |-> c, error |-> e]
    ELSE IF s = "error" /\ event.type = "CLEAR_ERROR"
       THEN [state |-> "idle", content |-> c, error |-> Undefined]
    ELSE [state |-> s, content |-> c, error |-> e]

\* send(event)
send(event) ==
    LET next == card_transition(state, content, error, event)
    IN  /\ state' = next.state
        /\ content' = next.content
        /\ error' = next.error

Event(type) == [type |-> type, content |-> << >>]
UpdateContentEvent(c) == [type |-> "UPDATE_CONTENT", content |-> c]

cardFrame == << generatedText, streamingText, lastGenerationTime, generationCount,
               retryCount, isRetrying, actor, now, timers, retriesReceived, utilVars >>

\* the contents the editor widget passes to handleContentChange
CardContentInputs == { EmptyString, Str_ctl_a, Str_HelloWorld, Str_Fifty }

\* React renders the component again: the callbacks close over this state and content
render ==
    /\ view # [state |-> state, content |-> content]
    /\ view' = [state |-> state, content |-> content]
    /\ UNCHANGED << state, content, error, streamingRef, handlers, started, cardFrame >>

\* handleContentChange(newContent)
handleContentChange ==
    /\ \E newContent \in CardContentInputs : send(UpdateContentEvent(newContent))
    /\ UNCHANGED << view, streamingRef, handlers, started, cardFrame >>

\* isDisabled of the last render: the button is not clickable when it is true
isDisabled == view.state \in {"loading", "streaming"} \/ Len(Trim(view.content)) = 0

\* handleContinueWriting up to its first await: the streaming branch, or send
\* CONTINUE_WRITING, a new AbortController, and the generator's first step
handleContinueWriting ==
    /\ ~isDisabled
    /\ started < MaxHandlers
    /\ started' = started + 1
    /\ IF view.state = "streaming"
          THEN /\ send(Event("CANCEL"))
               /\ handlers' = [h \in DOMAIN handlers |->
                                 IF h = streamingRef
                                    THEN [handlers[h] EXCEPT !.aborted = TRUE] ELSE handlers[h]]
               /\ UNCHANGED streamingRef
          ELSE /\ send(Event("CONTINUE_WRITING"))
               /\ streamingRef' = Len(handlers) + 1
               /\ \E outcome \in CardStreamOutcomes(view.content) :
                     handlers' = Append(handlers,
                        [pc |-> "streaming", aborted |-> FALSE, before |-> content,
                         currentContent |-> view.content, throws |-> outcome.throws,
                         selectedText |-> outcome.text,
                         remaining |-> SplitDroppingWhiteSpace(outcome.text), emitted |-> 0])
    /\ UNCHANGED << view, cardFrame >>

\* a handler that returned: its locals are gone
Settled(handler) ==
    [handler EXCEPT !.pc = "done", !.before = << >>, !.currentContent = << >>,
                    !.selectedText = << >>, !.remaining = << >>]

\* one turn of the for await loop: the generator yields the next token
handler_token(h) ==
    /\ handlers[h].pc = "streaming"
    /\ ~handlers[h].throws
    /\ Len(handlers[h].remaining) > 0
    /\ IF handlers[h].aborted
          THEN \* break, then finally with signal.aborted
               /\ handlers' = [handlers EXCEPT ![h] = Settled(handlers[h])]
               /\ UNCHANGED << state, content, error >>
          ELSE LET token == Head(handlers[h].remaining)
                   cur == handlers[h].currentContent
                   currentContent == cur \o (IF EndsWith(cur, 32) THEN << >> ELSE << 32 >>) \o token
               IN  /\ handlers' = [handlers EXCEPT ![h].currentContent = currentContent,
                                                   ![h].remaining = Tail(@),
                                                   ![h].emitted = @ + 1]
                   /\ send(UpdateContentEvent(currentContent))
    /\ UNCHANGED << view, streamingRef, started, cardFrame >>

\* the loop ends (the generator returned, or threw and catch logged it): finally
handler_finally(h) ==
    /\ handlers[h].pc = "streaming"
    /\ handlers[h].throws \/ Len(handlers[h].remaining) = 0
    /\ handlers' = [handlers EXCEPT ![h] = Settled(handlers[h])]
    /\ IF ~handlers[h].aborted
          THEN send(Event("CANCEL"))
          ELSE UNCHANGED << state, content, error >>
    /\ UNCHANGED << view, streamingRef, started, cardFrame >>

CardNext ==
    \/ render
    \/ handleContentChange
    \/ handleContinueWriting
    \/ \E h \in DOMAIN handlers : handler_token(h)
    \/ \E h \in DOMAIN handlers : handler_finally(h)

SpecCard == Init /\ [][CardNext]_vars

(***************************************************************************)
(* withRetry (errors.ts 274-302): specification SpecRetry.                  *)
(***************************************************************************)
\* new AITimeoutError(timeoutMs, { originalPromise: promise.constructor.name })
AITimeoutError(timeoutMs) ==
    [name |-> "AITimeoutError", type |-> "AI_TIMEOUT",
     message |-> "AI generation timed out after ${timeoutMs}ms",
     context |-> [timeoutMs |-> timeoutMs, originalPromise |-> "Promise"]]

\* the value undefined, and the value an operation resolves with
JsUndefined == [name |-> "undefined"]

OperationResult == [name |-> "result"]

\* what the operation given to withRetry / withTimeout may reject with
OperationErrors ==
    { EmptyInputError,
      NetworkError("Network connection timeout"),
      AIGenerationError("Rate limit exceeded"),
      [name |-> "Error", type |-> "none", message |-> "boom"] }

\* new EditorError(ErrorType.UNKNOWN, `Operation failed after ...`, lastError,
\*                 { attempts: maxRetries, delayMs })
RetryExhaustedError(maxRetries, delayMs, lastError) ==
    [name |-> "EditorError", type |-> "UNKNOWN",
     message |-> "Operation failed after ${maxRetries} attempts: ${lastError.message}",
     originalError |-> lastError,
     context |-> [attempts |-> maxRetries, delayMs |-> delayMs]]

\* withRetry(operation, maxRetries, delayMs) was called
RetryCalls ==
    { [pc |-> "start", maxRetries |-> n, delayMs |-> d, attempt |-> 1,
       lastError |-> JsUndefined, calls |-> 0, waited |-> 0, outcome |-> Undefined] :
         n \in 0..MaxRetries, d \in 0..MaxDelay }

retryFrame == << machineVars, cardVars, race, guard, failure >>

\* mutant of IsFinalAttempt: the last attempt is taken to be the one before it
IsFinalAttempt_off_by_one(attempt, maxRetries) == attempt + 1 = maxRetries

\* attempt === maxRetries
IsFinalAttempt(attempt, maxRetries) == attempt = maxRetries

\* the for loop is entered: operation() is invoked, or the loop body never runs
\* and `throw lastError!` throws undefined
retry_start ==
    /\ retry.pc = "start"
    /\ retry' = IF retry.attempt <= retry.maxRetries
                   THEN [retry EXCEPT !.pc = "awaiting", !.calls = @ + 1]
                   ELSE [retry EXCEPT !.pc = "rejected", !.outcome = Some(retry.lastError)]
    /\ UNCHANGED retryFrame

\* the value the k-th call of the operation resolves with
ResultOfCall(k) == [name |-> "result", call |-> k]

\* mutant of retry_operation_resolves: the operation is invoked once more
retry_operation_resolves_calling_again ==
    /\ retry.pc = "awaiting"
    /\ retry' = [retry EXCEPT !.pc = "resolved", !.calls = @ + 1,
                              !.outcome = Some(ResultOfCall(retry.calls + 1))]
    /\ UNCHANGED retryFrame

\* return await operation()
retry_operation_resolves ==
    /\ retry.pc = "awaiting"
    /\ retry' = [retry EXCEPT !.pc = "resolved", !.outcome = Some(ResultOfCall(retry.calls))]
    /\ UNCHANGED retryFrame

\* catch (error): the terminal error on the final attempt, else the wait
retry_operation_rejects ==
    /\ retry.pc = "awaiting"
    /\ \E e \in OperationErrors :
          retry' = IF IsFinalAttempt(retry.attempt, retry.maxRetries)
                      THEN [retry EXCEPT !.pc = "rejected", !.lastError = e,
                               !.outcome = Some(RetryExhaustedError(retry.maxRetries,
                                                                    retry.delayMs, e))]
                      ELSE [retry EXCEPT !.pc = "waiting", !.lastError = e]
    /\ UNCHANGED retryFrame

\* mutant of retry_wait_elapsed: the same delay after every failed attempt
retry_wait_elapsed_constant ==
    /\ retry.pc = "waiting"
    /\ retry' = IF retry.attempt + 1 <= retry.maxRetries
                   THEN [retry EXCEPT !.pc = "awaiting", !.calls = @ + 1,
                                      !.attempt = @ + 1,
                                      !.waited = @ + retry.delayMs]
                   ELSE [retry EXCEPT !.pc = "rejected", !.attempt = @ + 1,
                                      !.waited = @ + retry.delayMs,
                                      !.outcome = Some(retry.lastError)]
    /\ UNCHANGED retryFrame

\* setTimeout(resolve, delayMs * attempt) elapsed: attempt++, and the loop test
retry_wait_elapsed ==
    /\ retry.pc = "waiting"
    /\ retry' = IF retry.attempt + 1 <= retry.maxRetries
                   THEN [retry EXCEPT !.pc = "awaiting", !.calls = @ + 1,
                                      !.attempt = @ + 1,
                                      !.waited = @ + retry.delayMs * retry.attempt]
                   ELSE [retry EXCEPT !.pc = "rejected", !.attempt = @ + 1,
                                      !.waited = @ + retry.delayMs * retry.attempt,
                                      !.outcome = Some(retry.lastError)]
    /\ UNCHANGED retryFrame

RetryInit ==
    /\ MachineInit
    /\ CardIdle
    /\ race = [pc |-> "unused"]
    /\ guard = [pc |-> "unused"]
    /\ failure = [pc |-> "unused"]
    /\ retry \in RetryCalls

RetryNext ==
    \/ retry_start
    \/ retry_operation_resolves
    \/ retry_operation_rejects
    \/ retry_wait_elapsed

SpecRetry == RetryInit /\ [][RetryNext]_vars

(***************************************************************************)
(* withTimeout (errors.ts 251-271): specifications SpecTimeout and          *)
(* SpecTimeoutFair.                                                        *)
(***************************************************************************)
\* withTimeout(promise, timeoutMs) was called: the timer is armed, the handlers
\* are attached.  settles says whether the given promise ever settles.
TimeoutCalls ==
    { [pc |-> "pending", timeoutMs |-> t, settles |-> b, elapsed |-> 0,
       promise |-> "pending", promiseValue |-> Undefined,
       timer |-> "armed", outcome |-> Undefined] :
         t \in 0..MaxDelay, b \in BOOLEAN }

timeoutFrame == << machineVars, cardVars, retry, guard, failure >>

\* a millisecond passes
timeout_tick ==
    /\ race.pc # "unused"
    /\ race.elapsed <= MaxDelay
    /\ race' = [race EXCEPT !.elapsed = @ + 1]
    /\ UNCHANGED timeoutFrame

\* mutant of timeout_timer_fires: the callback runs and leaves the caller waiting
timeout_timer_fires_ignored ==
    /\ race.timer = "armed"
    /\ race.elapsed >= race.timeoutMs
    /\ race' = [race EXCEPT !.timer = "fired"]
    /\ UNCHANGED timeoutFrame

\* the setTimeout callback, not before timeoutMs have passed:
\* reject(new AITimeoutError(timeoutMs, ...))
timeout_timer_fires ==
    /\ race.timer = "armed"
    /\ race.elapsed >= race.timeoutMs
    /\ race' = IF race.pc = "pending"
                  THEN [race EXCEPT !.timer = "fired", !.pc = "rejected",
                                    !.outcome = Some(AITimeoutError(race.timeoutMs))]
                  ELSE [race EXCEPT !.timer = "fired"]
    /\ UNCHANGED timeoutFrame

\* clearTimeout(timeoutId)
ClearTimeout(timer) == IF timer = "armed" THEN "cleared" ELSE timer

\* mutant of timeout_promise_fulfils: the timer is left armed
timeout_promise_fulfils_keeping_timer ==
    /\ race.pc # "unused"
    /\ race.settles
    /\ race.promise = "pending"
    /\ race' = IF race.pc = "pending"
                  THEN [race EXCEPT !.promise = "fulfilled", !.promiseValue = Some(OperationResult),
                                    !.pc = "resolved", !.outcome = Some(OperationResult)]
                  ELSE [race EXCEPT !.promise = "fulfilled", !.promiseValue = Some(OperationResult)]
    /\ UNCHANGED timeoutFrame

\* the promise fulfils: .then((result) => { clearTimeout(timeoutId); resolve(result) })
timeout_promise_fulfils ==
    /\ race.pc # "unused"
    /\ race.settles
    /\ race.promise = "pending"
    /\ race' = IF race.pc = "pending"
                  THEN [race EXCEPT !.promise = "fulfilled", !.promiseValue = Some(OperationResult),
                                    !.timer = ClearTimeout(@), !.pc = "resolved",
                                    !.outcome = Some(OperationResult)]
                  ELSE [race EXCEPT !.promise = "fulfilled", !.promiseValue = Some(OperationResult),
                                    !.timer = ClearTimeout(@)]
    /\ UNCHANGED timeoutFrame

\* the promise rejects: .catch((error) => { clearTimeout(timeoutId); reject(error) })
timeout_promise_rejects ==
    /\ race.pc # "unused"
    /\ race.settles
    /\ race.promise = "pending"
    /\ \E e \in OperationErrors :
          race' = IF race.pc = "pending"
                     THEN [race EXCEPT !.promise = "rejected", !.promiseValue = Some(e),
                                       !.timer = ClearTimeout(@), !.pc = "rejected",
                                       !.outcome = Some(e)]
                     ELSE [race EXCEPT !.promise = "rejected", !.promiseValue = Some(e),
                                       !.timer = ClearTimeout(@)]
    /\ UNCHANGED timeoutFrame

TimeoutInit ==
    /\ MachineInit
    /\ CardIdle
    /\ retry = [pc |-> "unused"]
    /\ guard = [pc |-> "unused"]
    /\ failure = [pc |-> "unused"]
    /\ race \in TimeoutCalls

TimeoutNext ==
    \/ timeout_tick
    \/ timeout_timer_fires
    \/ timeout_promise_fulfils
    \/ timeout_promise_rejects

SpecTimeout == TimeoutInit /\ [][TimeoutNext]_vars

\* time passes and a due timer callback runs: the event loop does not stop
SpecTimeoutFair ==
    SpecTimeout /\ WF_vars(timeout_tick) /\ WF_vars(timeout_timer_fires)

(***************************************************************************)
(* The Content Guard on its own (errors.ts 225-248): specification         *)
(* SpecGuard.  A text is validated, then sanitized, then sanitized again.  *)
(***************************************************************************)
\* "a", tab, newline, and two of the characters the regex removes (SOH, DEL)
GuardAlphabet == { 97, 9, 10, 1, 127 }

\* every text of at most MaxInputLen characters over the alphabet
ShortTexts == UNION { [1..n -> GuardAlphabet] : n \in 0..MaxInputLen }

\* texts around the length limit: 49,999 / 50,000 / 50,001 characters
LongTexts ==
    { << -(MaxContentLength - 1) >>,
      << -MaxContentLength >>,
      << -(MaxContentLength + 1) >>,
      << -(MaxContentLength - 1), 10 >>,
      << -(MaxContentLength - 2), 9, 10 >>,
      << -(MaxContentLength - 1), 9, 10 >>,
      << -(MaxContentLength - 1), 1 >>,
      << 1, -MaxContentLength >>,
      << 127, -(MaxContentLength + 1) >> }

GuardInputs == ShortTexts \cup LongTexts

guardFrame == << machineVars, cardVars, retry, race, failure >>

\* validateContent(content)
guard_validate ==
    /\ guard.pc = "called"
    /\ guard' = [guard EXCEPT !.pc = "validated",
                              !.errors = validateContent(guard.input),
                              !.isValid = isValid(guard.input)]
    /\ UNCHANGED guardFrame

\* sanitizeContent applied to the text at hand
guard_sanitize ==
    /\ guard.pc \in {"validated", "sanitized"}
    /\ guard.passes < MaxPasses
    /\ guard' = [guard EXCEPT !.pc = "sanitized",
                              !.previous = guard.text,
                              !.text = sanitizeContent(guard.text),
                              !.passes = @ + 1]
    /\ UNCHANGED guardFrame

GuardInit ==
    /\ MachineInit
    /\ CardIdle
    /\ retry = [pc |-> "unused"]
    /\ race = [pc |-> "unused"]
    /\ failure = [pc |-> "unused"]
    /\ \E input \in GuardInputs :
          guard = [pc |-> "called", input |-> input, errors |-> << >>, isValid |-> FALSE,
                   text |-> input, previous |-> input, passes |-> 0]

GuardNext ==
    \/ guard_validate
    \/ guard_sanitize

SpecGuard == GuardInit /\ [][GuardNext]_vars

(***************************************************************************)
(* Error classification in mockAIGenerationService (errors.ts 179-184,      *)
(* 519-534): specification SpecClassify.  Messages are strings of           *)
(* character codes, so that toLowerCase and includes are computed.          *)
(***************************************************************************)
\* "Network connection timeout"
Msg_NetworkConnectionTimeout == << 78, 101, 116, 119, 111, 114, 107, 32, 99, 111, 110, 110, 101, 99, 116, 105, 111, 110, 32, 116, 105, 109, 101, 111, 117, 116 >>
\* "Failed to fetch from AI service"
Msg_FailedToFetch == << 70, 97, 105, 108, 101, 100, 32, 116, 111, 32, 102, 101, 116, 99, 104, 32, 102, 114, 111, 109, 32, 65, 73, 32, 115, 101, 114, 118, 105, 99, 101 >>
\* "Connection refused by server"
Msg_ConnectionRefused == << 67, 111, 110, 110, 101, 99, 116, 105, 111, 110, 32, 114, 101, 102, 117, 115, 101, 100, 32, 98, 121, 32, 115, 101, 114, 118, 101, 114 >>
\* "Request TIMEOUT"
Msg_RequestTIMEOUT == << 82, 101, 113, 117, 101, 115, 116, 32, 84, 73, 77, 69, 79, 85, 84 >>
\* "NetWork down"
Msg_NetWorkDown == << 78, 101, 116, 87, 111, 114, 107, 32, 100, 111, 119, 110 >>
\* "FETCH failed"
Msg_FETCHFailed == << 70, 69, 84, 67, 72, 32, 102, 97, 105, 108, 101, 100 >>
\* "AI generation timed out after 50ms"
Msg_TimedOut == << 65, 73, 32, 103, 101, 110, 101, 114, 97, 116, 105, 111, 110, 32, 116, 105, 109, 101, 100, 32, 111, 117, 116, 32, 97, 102, 116, 101, 114, 32, 53, 48, 109, 115 >>
\* "socket hang up"
Msg_SocketHangUp == << 115, 111, 99, 107, 101, 116, 32, 104, 97, 110, 103, 32, 117, 112 >>
\* "boom"
Msg_boom == << 98, 111, 111, 109 >>
\* "AI service temporarily unavailable"
Msg_ServiceUnavailable == << 65, 73, 32, 115, 101, 114, 118, 105, 99, 101, 32, 116, 101, 109, 112, 111, 114, 97, 114, 105, 108, 121, 32, 117, 110, 97, 118, 97, 105, 108, 97, 98, 108, 101 >>
\* "Content generation failed - please try again"
Msg_GenerationFailed == << 67, 111, 110, 116, 101, 110, 116, 32, 103, 101, 110, 101, 114, 97, 116, 105, 111, 110, 32, 102, 97, 105, 108, 101, 100, 32, 45, 32, 112, 108, 101, 97, 115, 101, 32, 116, 114, 121, 32, 97, 103, 97, 105, 110 >>
\* "AI model is currently overloaded"
Msg_Overloaded == << 65, 73, 32, 109, 111, 100, 101, 108, 32, 105, 115, 32, 99, 117, 114, 114, 101, 110, 116, 108, 121, 32, 111, 118, 101, 114, 108, 111, 97, 100, 101, 100 >>
\* "Rate limit exceeded"
Msg_RateLimit == << 82, 97, 116, 101, 32, 108, 105, 109, 105, 116, 32, 101, 120, 99, 101, 101, 100, 101, 100 >>
\* "Generated text is empty or invalid"
Msg_EmptyGenerated == << 71, 101, 110, 101, 114, 97, 116, 101, 100, 32, 116, 101, 120, 116, 32, 105, 115, 32, 101, 109, 112, 116, 121, 32, 111, 114, 32, 105, 110, 118, 97, 108, 105, 100 >>
\* "Cannot generate content for empty input"
Msg_EmptyInput == << 67, 97, 110, 110, 111, 116, 32, 103, 101, 110, 101, 114, 97, 116, 101, 32, 99, 111, 110, 116, 101, 110, 116, 32, 102, 111, 114, 32, 101, 109, 112, 116, 121, 32, 105, 110, 112, 117, 116 >>
\* "network"
Str_network == << 110, 101, 116, 119, 111, 114, 107 >>
\* "timeout"
Str_timeout == << 116, 105, 109, 101, 111, 117, 116 >>
\* "fetch"
Str_fetch == << 102, 101, 116, 99, 104 >>
\* "Network error: "
Str_NetworkErrorPrefix == << 78, 101, 116, 119, 111, 114, 107, 32, 101, 114, 114, 111, 114, 58, 32 >>
\* "Unexpected error during generation: "
Str_UnexpectedErrorPrefix == << 85, 110, 101, 120, 112, 101, 99, 116, 101, 100, 32, 101, 114, 114, 111, 114, 32, 100, 117, 114, 105, 110, 103, 32, 103, 101, 110, 101, 114, 97, 116, 105, 111, 110, 58, 32 >>

\* String.prototype.toLowerCase (ASCII letters)
ToLowerCase(s) == [i \in DOMAIN s |-> IF s[i] >= 65 /\ s[i] <= 90 THEN s[i] + 32 ELSE s[i]]

\* String.prototype.includes
Includes(s, sub) ==
    \E i \in 0..(Len(s) - Len(sub)) : SubSeq(s, i + 1, i + Len(sub)) = sub

\* mutant of isNetworkError: "timeout" in the message is not looked for
isNetworkError_without_timeout(e) ==
    \/ Includes(ToLowerCase(e.message), Str_network)
    \/ Includes(ToLowerCase(e.message), Str_fetch)
    \/ e.name = "NetworkError"

\* isNetworkError(error)
isNetworkError(e) ==
    \/ Includes(ToLowerCase(e.message), Str_network)
    \/ Includes(ToLowerCase(e.message), Str_timeout)
    \/ Includes(ToLowerCase(e.message), Str_fetch)
    \/ e.name = "NetworkError"

\* the errors the try block throws itself, and plain Errors of any name and message
\* (the backend is the replaceable surface).  class is what instanceof tests.
ThrownErrors ==
    { [class |-> "Error", name |-> n, type |-> "none", message |-> msg,
       context |-> [contentLength |-> FALSE, isNetworkError |-> FALSE]] :
         n \in { "Error", "NetworkError", "TypeError", "AbortError" },
         msg \in { Msg_NetworkConnectionTimeout, Msg_FailedToFetch, Msg_ConnectionRefused,
                   Msg_RequestTIMEOUT, Msg_NetWorkDown, Msg_FETCHFailed, Msg_TimedOut,
                   Msg_SocketHangUp, Msg_boom, EmptyString } }
    \cup
    { [class |-> "AIGenerationError", name |-> "AIGenerationError", type |-> "AI_GENERATION",
       message |-> msg, context |-> [contentLength |-> TRUE, isNetworkError |-> FALSE]] :
         msg \in { Msg_ServiceUnavailable, Msg_GenerationFailed, Msg_Overloaded, Msg_RateLimit } }
    \cup
    { [class |-> "AIGenerationError", name |-> "AIGenerationError", type |-> "AI_GENERATION",
       message |-> Msg_EmptyGenerated,
       context |-> [contentLength |-> FALSE, isNetworkError |-> FALSE]],
      [class |-> "ValidationError", name |-> "ValidationError", type |-> "VALIDATION",
       message |-> Msg_EmptyInput,
       context |-> [contentLength |-> FALSE, isNetworkError |-> FALSE]] }

\* "AI generation timed out after "
Str_TimedOutAfter == << 65, 73, 32, 103, 101, 110, 101, 114, 97, 116, 105, 111, 110, 32, 116, 105, 109, 101, 100, 32, 111, 117, 116, 32, 97, 102, 116, 101, 114, 32 >>
\* "AI generation timeout after "
Str_TimeoutAfter == << 65, 73, 32, 103, 101, 110, 101, 114, 97, 116, 105, 111, 110, 32, 116, 105, 109, 101, 111, 117, 116, 32, 97, 102, 116, 101, 114, 32 >>
\* "ms"
Str_ms == << 109, 115 >>

\* the decimal digits of a number: `${timeoutMs}`
RECURSIVE Digits(_)
Digits(n) == IF n < 10 THEN << 48 + n >> ELSE Digits(n \div 10) \o << 48 + (n % 10) >>

\* mutant of AITimeoutErrorMessage: the message says "timeout"
AITimeoutErrorMessage_timeout(timeoutMs) == Str_TimeoutAfter \o Digits(timeoutMs) \o Str_ms

\* `AI generation timed out after ${timeoutMs}ms`
AITimeoutErrorMessage(timeoutMs) == Str_TimedOutAfter \o Digits(timeoutMs) \o Str_ms

\* the timeoutMs given to withTimeout: small ones, and mockAIGenerationService's default
TimeoutArguments == (0..MaxDelay) \cup { DefaultTimeoutMs }

\* the AITimeoutError withTimeout rejects with, its message written out
TimeoutGuardError(timeoutMs) ==
    [class |-> "AITimeoutError", name |-> AITimeoutError(timeoutMs).name,
     type |-> AITimeoutError(timeoutMs).type, message |-> AITimeoutErrorMessage(timeoutMs),
     context |-> AITimeoutError(timeoutMs).context]

\* the catch block: what the generation promise is rejected with.  A context field
\* that is FALSE is an absent key.
generation_catch(e) ==
    IF e.class \in { "ValidationError", "AIGenerationError" } THEN e
    ELSE IF isNetworkError(e)
       THEN [class |-> "AIGenerationError", name |-> "AIGenerationError", type |-> "AI_GENERATION",
             message |-> Str_NetworkErrorPrefix \o e.message,
             context |-> [contentLength |-> FALSE, isNetworkError |-> TRUE]]
       ELSE [class |-> "AIGenerationError", name |-> "AIGenerationError", type |-> "AI_GENERATION",
             message |-> Str_UnexpectedErrorPrefix \o e.message,
             context |-> [contentLength |-> FALSE, isNetworkError |-> FALSE]]

classifyFrame == << machineVars, cardVars, retry, race, guard >>

\* isNetworkError(error) called on the error (thrown in the try block, or the one
\* withTimeout rejected with)
failure_isNetworkError ==
    /\ failure.pc = "thrown"
    /\ failure' = [failure EXCEPT !.pc = "tested", !.isNetwork = isNetworkError(failure.raw)]
    /\ UNCHANGED classifyFrame

\* catch (error) { ... reject(...) }
failure_catch ==
    /\ failure.pc = "thrown"
    /\ failure.origin = "try"
    /\ failure' = [failure EXCEPT !.pc = "rejected", !.rejection = generation_catch(failure.raw)]
    /\ UNCHANGED classifyFrame

ClassifyInit ==
    /\ MachineInit
    /\ CardIdle
    /\ retry = [pc |-> "unused"]
    /\ race = [pc |-> "unused"]
    /\ guard = [pc |-> "unused"]
    /\ \/ \E e \in ThrownErrors :
             failure = [pc |-> "thrown", origin |-> "try", timeoutMs |-> 0, raw |-> e,
                        isNetwork |-> FALSE, rejection |-> e]
       \/ \E t \in TimeoutArguments :
             failure = [pc |-> "thrown", origin |-> "withTimeout", timeoutMs |-> t,
                        raw |-> TimeoutGuardError(t), isNetwork |-> FALSE,
                        rejection |-> TimeoutGuardError(t)]

ClassifyNext ==
    \/ failure_isNetworkError
    \/ failure_catch

SpecClassify == ClassifyInit /\ [][ClassifyNext]_vars

(***************************************************************************)
(* Claims about the machine of errors.ts (specification Spec).             *)
(***************************************************************************)
IsBlank(s) == Len(Trim(s)) = 0
EndsWithTerminalPunctuation(s) == EndsWith(s, 46) \/ EndsWith(s, 33) \/ EndsWith(s, 63)
StartsWithWhiteSpace(s) == Len(s) > 0 /\ IsWhiteSpace(s[1])
\* the step that enters success: the invoke is done, the text it returns is the
\* join of the tokens it collected
EntersSuccess == state = "loading" /\ state' = "success"

\* the merge as the claim words it: the space is left out when content ends with
\* terminal punctuation or when generatedText itself starts with white space
C1_MergeAsClaimed(c, g) ==
    IF IsBlank(g) THEN c
    ELSE IF IsBlank(c) THEN Trim(g)
    ELSE Trim(c)
         \o (IF EndsWithTerminalPunctuation(Trim(c)) \/ StartsWithWhiteSpace(g)
                THEN << >> ELSE << 32 >>)
         \o Trim(g)

\* C1 as stated: on entry to success, content is the merge of content and
\* generatedText, with no space inserted when generatedText starts with white space.
C1_MergeRuleAsStated ==
    [][EntersSuccess => content' = C1_MergeAsClaimed(content, Join(actor.tokens))]_vars

\* C1 amended: on entry to success, blank generatedText leaves content unchanged;
\* otherwise content becomes trim(content) followed by trim(generatedText)
\* (trim(generatedText) alone when trim(content) is empty), with one space between
\* them unless trim(content) ends with '.', '!' or '?'.  Leading white space of
\* generatedText is trimmed away and never suppresses the space.
C1_MergeRule ==
    [][EntersSuccess =>
          LET g == Join(actor.tokens)
          IN  content' =
                IF IsBlank(g) THEN content
                ELSE IF IsBlank(content) THEN Trim(g)
                ELSE IF EndsWithTerminalPunctuation(Trim(content))
                        THEN Trim(content) \o Trim(g)
                        ELSE Trim(content) \o << 32 >> \o Trim(g)]_vars

\* a merge of a text that starts with a space into content without punctuation
C1_Witness ==
    /\ state = "success"
    /\ content = Str_HelloWorld \o << 32 >> \o Trim(Text_TheSunDot)

\* C2 as stated: from non-blank content not ending in '.', '!' or '?' and a
\* non-blank generated text T, success makes content the old content, one space,
\* then T, and counts one generation; the grace period then leads to idle.
C2_SuccessRunAsStated ==
    [][/\ (EntersSuccess /\ ~IsBlank(content) /\ ~EndsWithTerminalPunctuation(content)
              /\ ~IsBlank(Join(actor.tokens)))
          => /\ content' = content \o << 32 >> \o Join(actor.tokens)
             /\ generationCount' = generationCount + 1
       /\ success_after
          => (state' = "idle" /\ generationCount' = generationCount /\ content' = content)
      ]_vars

\* C2 amended: from content whose trimmed text is non-blank and does not end in
\* '.', '!' or '?' and a non-blank generated text T, success makes content the
\* trimmed old content, exactly one space, then the trimmed T, and generationCount
\* grows by exactly 1; the grace period then leads to idle with both unchanged.
C2_SuccessRun ==
    [][/\ (EntersSuccess /\ ~IsBlank(content) /\ ~EndsWithTerminalPunctuation(Trim(content))
              /\ ~IsBlank(Join(actor.tokens)))
          => /\ content' = Trim(content) \o << 32 >> \o Trim(Join(actor.tokens))
             /\ generationCount' = generationCount + 1
       /\ success_after
          => (state' = "idle" /\ generationCount' = generationCount /\ content' = content)
      ]_vars

\* "Hello world" continued by "The sun", back in idle after the grace period
C2_Witness ==
    /\ state = "idle"
    /\ actor.status = "done"
    /\ generationCount = 1
    /\ content = Str_HelloWorld \o << 32 >> \o Text_TheSun

\* C6: UPDATE_CONTENT in idle with content the Content Guard rejects keeps the
\* prior content, surfaces an error and stays in idle.
C6_RejectedUpdateIsDiscarded ==
    [][\A c \in ContentInputs :
          (idle_UPDATE_CONTENT_event(c) /\ ~isValid(sanitizeContent(c)))
          => (content' = content /\ error' # Undefined /\ state' = "idle")]_vars

\* C7 as stated: no transition, RESET included, lowers generationCount.
C7_CountNeverDecreasesAsStated ==
    [][generationCount' >= generationCount]_vars

\* C7 amended: generationCount never decreases on any transition other than
\* RESET, which sets it back to 0.
C7_CountNeverDecreases ==
    [][generationCount' >= generationCount \/ (RESET /\ generationCount' = 0)]_vars

\* a RESET after a merged generation: the count is back to 0
C7_Witness ==
    /\ actor.status = "done"
    /\ generationCount = 0

\* C8: RESET, in any state, leads to idle with every field of the context at its
\* initial default.
C8_ResetRestoresInitialState ==
    [][RESET =>
          /\ state' = "idle"
          /\ content' = EmptyString
          /\ generatedText' = EmptyString
          /\ streamingText' = EmptyString
          /\ error' = Undefined
          /\ lastGenerationTime' = Undefined
          /\ generationCount' = 0
          /\ retryCount' = 0
          /\ isRetrying' = FALSE]_vars

\* a RESET received in loading: the invoked actor was stopped
C8_Witness ==
    /\ state = "idle"
    /\ actor.status = "stopped"
    /\ content = EmptyString
    /\ lastGenerationTime = Undefined

(***************************************************************************)
(* Claims about part_001 / part_003 (specification SpecCard).              *)
(***************************************************************************)
\* a handler's loop has delivered a token and has tokens left to deliver
MidStream(h) ==
    /\ handlers[h].pc = "streaming"
    /\ handlers[h].emitted > 0
    /\ Len(handlers[h].remaining) > 0

\* some handler's finally sends CANCEL in this step
CancelIsSent == \E k \in DOMAIN handlers : handler_finally(k) /\ ~handlers[k].aborted

\* C3: when CANCEL is issued while an attempt is mid-stream, the machine reaches
\* idle with the content it had before that generation began, and the attempt
\* delivers nothing afterwards.
C3_CancelMidStream ==
    [][\A h \in DOMAIN handlers :
          (MidStream(h) /\ CancelIsSent)
          => /\ state' = "idle"
             /\ content' = handlers[h].before
             /\ handlers'[h].aborted]_vars

\* C4: CANCEL received in loading before the attempt produced any token leads to
\* idle, with content unchanged and error null.
C4_CancelBeforeFirstToken ==
    [][\A h \in DOMAIN handlers :
          (state = "loading" /\ handlers[h].emitted = 0 /\ ~handlers[h].aborted
             /\ handler_finally(h))
          => (state' = "idle" /\ content' = content /\ error' = Undefined)]_vars

\* the generator threw before its first token, finally sent CANCEL from loading
C4_Witness ==
    /\ state = "idle"
    /\ error = Undefined
    /\ Len(handlers) = 1
    /\ handlers[1].pc = "done"
    /\ handlers[1].throws
    /\ handlers[1].emitted = 0
    /\ content = Str_ctl_a

\* C5: at most one generation is in flight: there is never a second token stream
\* running beside the first.
C5_AtMostOneGeneration ==
    Cardinality({ h \in DOMAIN handlers : handlers[h].pc = "streaming" }) <= 1


(***************************************************************************)
(* Claims about withRetry (specification SpecRetry).                       *)
(***************************************************************************)
\* C9: withRetry(op, n, d) with n >= 1 on an operation that fails every time
\* invokes op exactly n times, then rejects with one terminal EditorError of
\* type UNKNOWN whose context carries attempts = n, and op is never invoked
\* again once withRetry has rejected.
C9_RetryExhaustion ==
    /\ [](retry.pc = "rejected" /\ retry.maxRetries >= 1 =>
            /\ retry.calls = retry.maxRetries
            /\ retry.outcome[1].name = "EditorError"
            /\ retry.outcome[1].type = "UNKNOWN"
            /\ retry.outcome[1].context.attempts = retry.maxRetries)
    /\ [][retry.pc = "rejected" => retry' = retry]_vars

C9_Witness ==
    /\ retry.pc = "rejected"
    /\ retry.maxRetries = 3
    /\ retry.calls = 3
    /\ retry.outcome[1].context.attempts = 3

(***************************************************************************)
(* Claims about withTimeout (specification SpecTimeoutFair).               *)
(***************************************************************************)
\* C10: withTimeout(op, t) on an operation that never settles is rejected, and
\* once the timer has fired it has been rejected with an AITimeoutError of type
\* AI_TIMEOUT whose context carries timeoutMs = t, while the operation is still
\* pending: the caller does not wait for it.
C10_TimeoutRejects ==
    /\ [](~race.settles /\ race.timer = "fired" =>
            /\ race.pc = "rejected"
            /\ race.outcome[1].name = "AITimeoutError"
            /\ race.outcome[1].type = "AI_TIMEOUT"
            /\ race.outcome[1].context.timeoutMs = race.timeoutMs
            /\ race.promise = "pending")
    /\ (~race.settles) ~> (race.pc = "rejected" /\ race.timer = "fired")

C10_Witness ==
    /\ ~race.settles
    /\ race.pc = "rejected"
    /\ race.timeoutMs >= 1
    /\ race.elapsed > race.timeoutMs
    /\ race.promise = "pending"
    /\ race.outcome[1].context.timeoutMs = race.timeoutMs


(***************************************************************************)
(* Claims about the Content Guard (specification SpecGuard).               *)
(***************************************************************************)
\* the control characters the rules name: 0x00-0x08, 0x0B-0x0C, 0x0E-0x1F, 0x7F
IsDisallowedControl(c) == c \in (0..8) \cup {11, 12} \cup (14..31) \cup {127}
HasDisallowedControl(s) == \E i \in DOMAIN s : IsDisallowedControl(s[i])

\* C11: sanitize is idempotent: sanitizing a text that was already sanitized
\* returns it unchanged, for every input.
C11_SanitizeIdempotent ==
    guard.passes >= 2 => guard.text = guard.previous

\* two control characters in a row, sanitized twice
C11_Witness ==
    /\ guard.passes = 2
    /\ guard.input = << 1, 127, 97 >>
    /\ guard.text = << 97 >>

\* C12: a text of at most 50,000 characters (50,000 included) without a
\* disallowed control character is reported valid with no violations and is
\* returned unchanged by sanitize, newline and tab included; a text of more
\* than 50,000 characters is reported invalid.
C12_GuardAcceptsCleanContent ==
    /\ (guard.pc # "called" /\ StrLen(guard.input) <= 50000
          /\ ~HasDisallowedControl(guard.input))
       => /\ guard.isValid
          /\ guard.errors = << >>
          /\ guard.passes >= 1 => guard.text = guard.input
    /\ (guard.pc # "called" /\ StrLen(guard.input) > 50000) => ~guard.isValid

\* exactly 50,000 characters with a tab and a newline, validated and sanitized
C12_Witness ==
    /\ guard.passes = 1
    /\ guard.input = << -(MaxContentLength - 2), 9, 10 >>
    /\ StrLen(guard.input) = 50000
    /\ guard.isValid
    /\ guard.text = guard.input


(***************************************************************************)
(* Claims about the streaming generators.                                  *)
(***************************************************************************)
\* C13: the tokens a generator is about to emit, joined in emission order, are
\* exactly the continuation text it selected (part_001's generator, as
\* EditorCard.handleContinueWriting starts it).
C13_TokensRebuildText ==
    \A h \in DOMAIN handlers :
        (handlers[h].pc = "streaming" /\ ~handlers[h].throws /\ handlers[h].emitted = 0)
        => Join(handlers[h].remaining) = handlers[h].selectedText


(***************************************************************************)
(* Claims about the classification of failures (specification SpecClassify). *)
(***************************************************************************)
\* the failure comes from the backend: it is not one of the module's own
\* ValidationError / AIGenerationError objects
IsBackendFailure(e) == e.class = "Error"

\* the message contains "timeout", "network" or "fetch" in any letter case, or
\* the name is the network marker
IndicatesTransport(e) ==
    \/ \E sub \in { Str_timeout, Str_network, Str_fetch } : Includes(ToLowerCase(e.message), sub)
    \/ e.name = "NetworkError"

ErrorTimers == { t \in timers : t.state = "error" }

\* C15: the delayed transition of the error state belongs to one entry of that
\* state.  Entering error schedules exactly one event, due ErrorDelay later; it
\* stays scheduled while the machine stays in error; every exit from error
\* (CLEAR_ERROR, CONTINUE_WRITING, RESET or the event itself) cancels it, so
\* outside error none is scheduled and a later entry starts with its own event
\* only; and the event clears the error and leads to idle only once it is due.
C15_ErrorTimerScoped ==
    /\ [](state # "error" => ErrorTimers = { })
    /\ [](state = "error" => Cardinality(ErrorTimers) = 1)
    /\ [][(state # "error" /\ state' = "error")
            => timers' = { [state |-> "error", due |-> now + ErrorDelay] }]_vars
    /\ [][(state = "error" /\ state' = "error") => timers' = timers]_vars
    /\ [][error_after
            => /\ \A t \in ErrorTimers : now >= t.due
               /\ state' = "idle"
               /\ error' = Undefined]_vars

\* an error entered at 10,000 ms, the instant an event scheduled by an entry at
\* 0 ms would have been due: it is shown, with its own event only, due at 20,000 ms
C15_Witness ==
    /\ state = "error"
    /\ error # Undefined
    /\ now = ErrorDelay
    /\ timers = { [state |-> "error", due |-> ErrorDelay + ErrorDelay] }


\* C16: a generation that fails before its first token takes the machine to the
\* error state with an error stored, and leaves content as it was before the
\* attempt (the failure as EditorCard.handleContinueWriting of part_003 handles
\* it: catch, then finally).
C16_FailureEntersError ==
    [][\A h \in DOMAIN handlers :
          (handler_finally(h) /\ handlers[h].throws /\ handlers[h].emitted = 0)
          => /\ state' = "error"
             /\ error' # Undefined
             /\ content' = handlers[h].before]_vars


\* C17: RETRY received in the error state increments retryCount by one, and the
\* machine then re-enters loading or stays in error.
C17_RetryIncrementsRetryCount ==
    [][error_RETRY => (retryCount' = retryCount + 1 /\ state' \in {"loading", "error"})]_vars


\* C18: CONTINUE_WRITING in idle moves to loading if and only if the content
\* passes the Content Guard and is non-blank after trimming (the machine of
\* part_001, as EditorCard.handleContinueWriting sends the event).
C18_ContinueWritingIsGuarded ==
    [][(handleContinueWriting /\ state = "idle")
          => (state' = "loading" <=> (isValid(content) /\ ~IsBlank(content)))]_vars

\* a CONTINUE_WRITING the machine accepts, in idle, success or error
AcceptedContinueWriting ==
    idle_CONTINUE_WRITING \/ success_CONTINUE_WRITING \/ error_CONTINUE_WRITING

\* C19: retryCount is 0 immediately after every accepted CONTINUE_WRITING,
\* whether it was accepted in idle, in success or in error.
C19_RetryCountZeroOnNewAttempt ==
    [][AcceptedContinueWriting => (state' = "loading" /\ retryCount' = 0)]_vars

\* a new attempt accepted after a failure during which RETRY had been sent
C19_Witness ==
    /\ state = "loading"
    /\ actor.status = "running"
    /\ retriesReceived = 1
    /\ retryCount = 0

\* C20: after each accepted CONTINUE_WRITING, lastGenerationTime is the clock
\* value at that event.
C20_LastGenerationTimeIsNow ==
    [][AcceptedContinueWriting => lastGenerationTime' = Some(now)]_vars


(***************************************************************************)
(* More claims about the Content Guard (specification SpecGuard).          *)
(***************************************************************************)
\* the text without the control characters the rules name, the rest in order
WithoutDisallowedControl(s) == SelectSeq(s, LAMBDA c : ~IsDisallowedControl(c))

\* C21 as stated: validate reports a violation only for a length over 50,000
\* (control characters are not a reason to reject), and sanitize removes exactly
\* the control characters, keeping every other character in order.
C21_ControlCharsNotRejectedAsStated ==
    guard.pc # "called"
    => /\ guard.isValid <=> StrLen(guard.input) <= 50000
       /\ guard.passes >= 1 => guard.text = WithoutDisallowedControl(guard.input)

\* C21 amended: validate reports a violation for a length over 50,000 and also
\* for the presence of any control character of 0x00-0x08, 0x0B-0x0C, 0x0E-0x1F,
\* 0x7F (one violation for each reason, so such content is reported invalid);
\* sanitize removes exactly those control characters, keeping newline, tab and
\* every other character in order.
C21_ControlCharsRejectedAndStripped ==
    guard.pc # "called"
    => /\ guard.isValid <=> (StrLen(guard.input) <= 50000 /\ ~HasDisallowedControl(guard.input))
       /\ Len(guard.errors) = (IF StrLen(guard.input) > 50000 THEN 1 ELSE 0)
                              + (IF HasDisallowedControl(guard.input) THEN 1 ELSE 0)
       /\ guard.passes >= 1 => guard.text = WithoutDisallowedControl(guard.input)

\* SOH, tab, "a": reported invalid, and sanitized to tab, "a"
C21_Witness ==
    /\ guard.passes = 1
    /\ guard.input = << 1, 9, 97 >>
    /\ ~guard.isValid
    /\ Len(guard.errors) = 1
    /\ guard.text = << 9, 97 >>


(***************************************************************************)
(* More claims about the classification of failures (SpecClassify).        *)
(***************************************************************************)
\* C22: the failure withTimeout raises when its own deadline fires is a timeout
\* error (type AI_TIMEOUT) whose context holds the timeoutMs it was given, and
\* isNetworkError is false for it: neither its message nor its name matches.
C22_TimeoutErrorIsNotNetwork ==
    failure.origin = "withTimeout"
    => /\ failure.raw.type = "AI_TIMEOUT"
       /\ failure.raw.name = "AITimeoutError"
       /\ failure.raw.context.timeoutMs = failure.timeoutMs
       /\ failure.pc = "tested" => ~failure.isNetwork

\* the error of the default deadline of 10,000 ms was given to isNetworkError
C22_Witness ==
    /\ failure.origin = "withTimeout"
    /\ failure.pc = "tested"
    /\ failure.timeoutMs = DefaultTimeoutMs
    /\ failure.raw.message = Str_TimedOutAfter \o << 49, 48, 48, 48, 48 >> \o Str_ms
    /\ ~failure.isNetwork


(***************************************************************************)
(* More claims about part_001 / part_003 (specification SpecCard).         *)
(***************************************************************************)
\* a handler whose generator failed has run its catch and finally blocks
FailedAttemptEnds(h) == handler_finally(h) /\ handlers[h].throws

\* C23: no failed generation attempt ends without an error being recorded in the
\* context: when the attempt of a handler has failed and the handler is done,
\* the context holds an error.
C23_FailureIsRecorded ==
    [][\A h \in DOMAIN handlers : FailedAttemptEnds(h) => error' # Undefined]_vars


\* C25: the machine moves from loading to streaming when the generator yields
\* its first token (the machine of part_001, the tokens as the handler of
\* part_003 receives them).
C25_FirstTokenEntersStreaming ==
    [][\A h \in DOMAIN handlers :
          (handler_token(h) /\ state = "loading" /\ handlers[h].emitted = 0
             /\ ~handlers[h].aborted)
          => state' = "streaming"]_vars

\* the abort signal of no attempt is ever signaled (used to decide whether the
\* case of C26 can happen at all)
NeverAborted == \A h \in DOMAIN handlers : ~handlers[h].aborted

(***************************************************************************)
(* More claims about the machine of errors.ts (specification Spec).        *)
(***************************************************************************)
\* s ends with suffix
HasSuffix(s, suffix) ==
    Len(s) >= Len(suffix) /\ SubSeq(s, Len(s) - Len(suffix) + 1, Len(s)) = suffix

\* C24: tokens reach the context one at a time: once the generator has yielded
\* its k-th token, the text accumulated in the context (the streaming buffer,
\* the generated text, or the content) ends with tokens 1..k in order.
C24_TokensDeliveredOneByOne ==
    [][actor_token =>
          \/ streamingText' = Join(actor'.tokens)
          \/ generatedText' = Join(actor'.tokens)
          \/ HasSuffix(content', Join(actor'.tokens))]_vars


\* the generator of the running attempt has yielded at least one token
HasEmitted == actor.status = "running" /\ Len(actor.tokens) > 0

\* C27: the generator raises its failures only before its first token: a run
\* that has yielded a token is not a failing run, the failure that enters error
\* comes from a run that yielded nothing, and a run that has yielded ends only
\* by completing or by being stopped (RESET), never by failing.
C27_FailureOnlyBeforeFirstToken ==
    /\ [](HasEmitted => ~actor.throws)
    /\ [][loading_onError => Len(actor.tokens) = 0]_vars
    /\ [][(HasEmitted /\ actor'.status # "running")
            => (actor'.status = "done" \/ RESET)]_vars

\* a run has yielded a token and still has tokens to yield
C27_Witness == HasEmitted /\ Len(actor.remaining) > 0


(***************************************************************************)
(* More claims about withTimeout (specification SpecTimeout).              *)
(***************************************************************************)
\* C28: when the deadline of withTimeout fires before the operation settles,
\* the operation is cancelled as well: once the timeout has been reported, the
\* operation's promise produces no later result and no later failure.
C28_TimeoutCancelsOperation ==
    [][race.timer = "fired" =>
          /\ race'.promise = race.promise
          /\ race'.promiseValue = race.promiseValue]_vars

(***************************************************************************)
(* More claims about withRetry (specification SpecRetry).                  *)
(***************************************************************************)
\* 1 + 2 + ... + n
RECURSIVE SumTo(_)
SumTo(n) == IF n <= 0 THEN 0 ELSE n + SumTo(n - 1)

\* C29: withRetry backs off linearly over 1-indexed attempts: the wait that
\* follows the failure of attempt k is delayMs * k and is taken only for k
\* smaller than maxRetries; the failure of the final attempt rejects at once,
\* with nothing waited; and when every attempt has failed the time waited in
\* total is delayMs * (1 + ... + (maxRetries - 1)).
C29_LinearBackoff ==
    /\ [][retry_wait_elapsed =>
            /\ retry.attempt < retry.maxRetries
            /\ retry'.waited = retry.waited + retry.delayMs * retry.attempt
            /\ retry'.attempt = retry.attempt + 1]_vars
    /\ [][(retry_operation_rejects /\ retry.attempt = retry.maxRetries) =>
            /\ retry'.pc = "rejected"
            /\ retry'.waited = retry.waited]_vars
    /\ [](retry.pc = "rejected" /\ retry.maxRetries >= 1 =>
            retry.waited = retry.delayMs * SumTo(retry.maxRetries - 1))

\* three attempts with a base delay of 2 have failed: 2 + 4 waited
C29_Witness ==
    /\ retry.pc = "rejected"
    /\ retry.maxRetries = 3
    /\ retry.delayMs = 2
    /\ retry.calls = 3
    /\ retry.waited = 6

\* an error of the Validation kind
IsValidationFailure(e) == "type" \in DOMAIN e /\ e.type = "VALIDATION"

\* C30: a Validation failure is never retried: when the operation fails with
\* an error of type VALIDATION, withRetry rejects after this one call of the
\* operation, and what it rejects with is that error (as it is, or as the
\* original error of the terminal error).
C30_ValidationIsNotRetried ==
    [][(retry_operation_rejects /\ IsValidationFailure(retry'.lastError)) =>
          /\ retry'.pc = "rejected"
          /\ retry'.calls = 1
          /\ \/ retry'.outcome = Some(retry'.lastError)
             \/ retry'.outcome[1].originalError = retry'.lastError]_vars


(***************************************************************************)
(* Claims about UPDATE_CONTENT outside idle (specification Spec).          *)
(***************************************************************************)
\* C31: UPDATE_CONTENT leaves the control state and the error shown as they
\* are in every state, and in the error state content that does not pass
\* validateContent does not replace the stored content.
C31_ErrorUpdateIsValidated ==
    [][(UPDATE_CONTENT \/ idle_UPDATE_CONTENT) =>
          /\ state' = state
          /\ error' = error
          /\ (state = "error" /\ ~isValid(content')) => content' = content]_vars


(***************************************************************************)
(* Claims about edits made while a generation runs (specification          *)
(* SpecCard).                                                              *)
(***************************************************************************)
\* s begins with prefix
HasPrefix(s, prefix) == Len(s) >= Len(prefix) /\ SubSeq(s, 1, Len(prefix)) = prefix

\* C32: an edit made while a generation runs is not lost: the content stored
\* in loading (the last UPDATE_CONTENT accepted, the user's included) is what
\* the generated text is added to, so the content after a token of the only
\* running attempt begins with the trimmed content stored before it (from the
\* attempt's second token on, when what is stored is either the attempt's own
\* last delivery or an edit made since).
C32_EditDuringGenerationIsKept ==
    [][\A h \in DOMAIN handlers :
          (handler_token(h) /\ Len(handlers) = 1 /\ state = "loading"
             /\ handlers[h].emitted >= 1 /\ ~handlers[h].aborted)
          => HasPrefix(content', Trim(content))]_vars


(***************************************************************************)
(* Claims about the machine left alone (specification SpecQuiet).          *)
(***************************************************************************)
\* C33: once CONTINUE_WRITING has been accepted and no further event arrives,
\* the machine returns to idle with no error stored: it does not stay in
\* loading, success or error forever.
C33_ReturnsToIdle ==
    /\ (state = "loading") ~> (state \in {"success", "error"})
    /\ (state # "idle") ~> (state = "idle" /\ error = Undefined)

\* the machine is back in idle, the error cleared, after a generation that
\* failed and the 10 seconds of the error state
C33_Witness ==
    /\ state = "idle"
    /\ actor.status = "failed"
    /\ error = Undefined
    /\ now >= ErrorDelay


(***************************************************************************)
(* More invariants of the machine of errors.ts (specification Spec).       *)
(***************************************************************************)
\* C34: in every reachable state the stored error is set exactly when the
\* machine is in the error state; no step leaves the error state with the
\* error still set, and no step sets an error without entering the error state.
C34_ErrorIffErrorState ==
    /\ []((error # Undefined) <=> (state = "error"))
    /\ [][(state = "error" /\ state' # "error") => error' = Undefined]_vars
    /\ [][(error = Undefined /\ error' # Undefined) => state' = "error"]_vars

\* the error state has been left by its delayed event, the error cleared
C34_Witness ==
    /\ state = "idle"
    /\ actor.status = "failed"
    /\ error = Undefined
    /\ now >= ErrorDelay
    /\ timers = { }


\* C35: loading is entered only with content that passes validateContent and
\* is not blank, whichever state accepted CONTINUE_WRITING.
C35_LoadingOnlyWithValidContent ==
    [][(state # "loading" /\ state' = "loading")
          => idle_CONTINUE_WRITING_guard(content')]_vars

\* C36: a completed generation is merged into content exactly once: its
\* completion enters success, merges the output, counts one generation and
\* leaves generatedText empty; the count grows by no other step; and neither
\* the delayed event of success nor CONTINUE_WRITING in success changes the
\* content again.
C36_MergedExactlyOnce ==
    /\ [][loading_onDone =>
            /\ state' = "success"
            /\ content' = success_entry_content(content, Join(actor.tokens))
            /\ generationCount' = generationCount + 1
            /\ generatedText' = EmptyString]_vars
    /\ [][generationCount' > generationCount => loading_onDone]_vars
    /\ [](state \in {"success", "idle"} => generatedText = EmptyString)
    /\ [][(success_after \/ success_CONTINUE_WRITING) =>
            /\ content' = content
            /\ generationCount' = generationCount]_vars

\* a second generation has completed and been merged
C36_Witness ==
    /\ state = "success"
    /\ generationCount = 2
    /\ generatedText = EmptyString
    /\ Len(content) > 0


\* C37: when RESET arrives in loading the invoked generation is stopped, and
\* its result or failure is never applied afterwards: only a running actor
\* yields or settles into the machine, and back in idle with the generation
\* abandoned, content, error and generationCount change only by an event sent
\* to the machine (UPDATE_CONTENT, CONTINUE_WRITING, CLEAR_ERROR, RESET).
C37_AbandonedGenerationIsDropped ==
    /\ [][(RESET /\ state = "loading") => actor'.status = "stopped"]_vars
    /\ [][(actor_token \/ loading_onDone \/ loading_onError)
            => actor.status = "running"]_vars
    /\ [][(state = "idle" /\ actor.status = "stopped") =>
            \/ << content, error, generationCount >>' = << content, error, generationCount >>
            \/ idle_UPDATE_CONTENT
            \/ idle_CONTINUE_WRITING
            \/ CLEAR_ERROR
            \/ RESET]_vars

\* a generation was abandoned by RESET and time has passed since
C37_Witness ==
    /\ state = "idle"
    /\ actor.status = "stopped"
    /\ content = EmptyString
    /\ generationCount = 0
    /\ now >= SuccessDelay


(***************************************************************************)
(* Claims about a withRetry that succeeds (specification SpecRetry).       *)
(***************************************************************************)
\* C38: withRetry stops at the first success: when attempt k succeeds, with
\* 1 <= k <= maxRetries, withRetry resolves with the result of that k-th call,
\* the operation has been invoked exactly k times, and it is not invoked again.
C38_StopsAtFirstSuccess ==
    /\ [][retry_operation_resolves =>
            /\ retry'.pc = "resolved"
            /\ retry'.calls = retry.calls
            /\ retry'.outcome = Some(ResultOfCall(retry.attempt))]_vars
    /\ [](retry.pc = "resolved" =>
            /\ 1 <= retry.attempt /\ retry.attempt <= retry.maxRetries
            /\ retry.calls = retry.attempt
            /\ retry.outcome = Some(ResultOfCall(retry.attempt)))
    /\ [][retry.pc = "resolved" => retry' = retry]_vars

\* the third attempt succeeded after two failures
C38_Witness ==
    /\ retry.pc = "resolved"
    /\ retry.attempt = 3
    /\ retry.calls = 3
    /\ retry.outcome = Some(ResultOfCall(3))


(***************************************************************************)
(* Claims about the race of withTimeout (specification SpecTimeout).       *)
(***************************************************************************)
\* withTimeout has settled
TimeoutSettled == race.pc \in {"resolved", "rejected"}

\* C39: withTimeout settles exactly once, with what happens first: when the
\* operation fulfils or rejects while withTimeout is pending the caller gets
\* that result or that same failure and the timer is cleared, never to fire;
\* when the timer fires first the caller gets the timeout error; and once
\* withTimeout has settled its outcome never changes, whatever settles later.
C39_FirstOutcomeWins ==
    /\ [][(timeout_promise_fulfils /\ race.pc = "pending") =>
            /\ race'.pc = "resolved"
            /\ race'.outcome = Some(OperationResult)
            /\ race'.timer = "cleared"]_vars
    /\ [][(timeout_promise_rejects /\ race.pc = "pending") =>
            /\ race'.pc = "rejected"
            /\ race'.outcome = race'.promiseValue
            /\ race'.outcome[1].name # "AITimeoutError"
            /\ race'.timer = "cleared"]_vars
    /\ [][(timeout_timer_fires /\ race.pc = "pending") =>
            /\ race'.pc = "rejected"
            /\ race'.outcome = Some(AITimeoutError(race.timeoutMs))]_vars
    /\ [][race.timer = "cleared" => race'.timer = "cleared"]_vars
    /\ [][TimeoutSettled =>
            /\ race'.pc = race.pc
            /\ race'.outcome = race.outcome]_vars

\* the timer fired first and the operation fulfilled afterwards: the outcome
\* is still the timeout error
C39_Witness ==
    /\ race.pc = "rejected"
    /\ race.timer = "fired"
    /\ race.promise = "fulfilled"
    /\ race.outcome = Some(AITimeoutError(race.timeoutMs))

====
